---- MODULE Spec2Model ----
(***************************************************************************)
(* A model of nitransforms/linear.py: the Affine transform algebra, the   *)
(* LinearTransformsMapping series, its apply() resampler and the          *)
(* from_filename()/load() format dispatch.                                *)
(***************************************************************************)
EXTENDS Integers, Sequences, FiniteSets, TLC

None == "None"            \* None where a name or a flag is expected
Null == [none |-> TRUE]   \* None where an object is expected

\* ------------------------------------------------------------------------
\* Bounds of the model
\* ------------------------------------------------------------------------
MaxFileTransforms == 2   \* transforms stored in a transform file
MaxT == 3                \* length of a series handed to apply()
MaxObjs == 2             \* transforms alive at once
MaxSeries == 2           \* entries of a series built from a list

\* ------------------------------------------------------------------------
\* State
\* ------------------------------------------------------------------------
VARIABLES
    \* from_filename() / load()
    ld_pc,        \* "idle", "loop", "loaded", "done"
    entry,        \* who was called: "load" or "<class>.from_filename"
    filename,     \* the file: suffix, existence, what each reader does with it
    fmt,          \* the fmt argument (None when unspecified)
    fmtlist,      \* linear.py:210
    cls,          \* the class that will be instantiated
    is_array,     \* linear.py:222
    errors,       \* linear.py:223, the (format, error) pairs collected
    tried,        \* the formats whose reader was run, in order
    nfmt,         \* position of the for loop in fmtlist
    retval,       \* the transform returned, or None
    raised,       \* the exception that left the call, or None
    \* LinearTransformsMapping.apply()
    ap_pc,        \* "idle", "loop", "done"
    spatialimage, \* the source image: ndim and shape
    ntransforms,  \* len(self)
    ap_ref,       \* _ref: an ImageGrid or a set of sampled points
    resampled,    \* the output buffer: shape and the channels written so far
    dataobj,      \* "loaded" when the whole source array is read up front
    t,            \* loop index of enumerate(self)
    ninterp,      \* calls of ndi.map_coordinates made by this call
    moved,        \* the value returned, or None
    ap_raised,    \* the exception that left the call, or None
    \* the transform algebra
    objs,         \* the transforms alive, in order of creation
    store,        \* the arrays the transforms own, by storage id (1, 2, ...)
    arg,          \* the arrays the caller passed to the latest call (ids -1, -2, ...)
    last          \* what the latest call was given and what came out of it

ldvars == <<ld_pc, entry, filename, fmt, fmtlist, cls, is_array, errors, tried,
            nfmt, retval, raised>>
alvars == <<objs, store, arg, last>>
apvars == <<ap_pc, spatialimage, ntransforms, ap_ref, resampled, dataobj, t,
            ninterp, moved, ap_raised>>

\* ========================================================================
\* Affine.from_filename and load
\* ========================================================================
DefaultFormats == <<"itk", "lta", "afni", "fsl">>

Formats == {"itk", "lta", "afni", "fsl"}

\* What a format reader does with the file: it parses it, or it raises.
ParseOutcomes == {"ok", "TransformFileError", "FileNotFoundError"}

Files ==
    [suffix : {".mat", ".tfm"},
     exists : BOOLEAN,
     exists000 : BOOLEAN,
     parses : [Formats -> ParseOutcomes],
     count : 1..MaxFileTransforms]

EntryPoints ==
    {"load", "Affine.from_filename", "LinearTransformsMapping.from_filename"}

EntryClass(e) ==
    IF e = "Affine.from_filename" THEN "Affine" ELSE "LinearTransformsMapping"

\* except (TransformFileError, FileNotFoundError) as err
CaughtOnlyTransformFileError(err) == err = "TransformFileError"

Caught(err) == err \in {"TransformFileError", "FileNotFoundError"}

\* The existence check made only when fmt is given.
MissingFile(file, f) ==
    /\ f # None
    /\ ~file.exists
    /\ (f # "fsl" \/ ~file.exists000)

\* The error raised once the loop is exhausted: its message names the file
\* and the formats of fmtlist, nothing else.
CouldNotOpen(formats) ==
    [kind |-> "TransformFileError", formats |-> formats, reasons |-> <<>>]

FromFilename(e, file, f) ==
    /\ ld_pc = "idle"
    /\ entry' = e
    /\ filename' = file
    /\ fmt' = f
    /\ fmtlist' = IF f # None THEN <<f>> ELSE DefaultFormats
    /\ cls' = EntryClass(e)
    /\ retval' = Null
    /\ tried' = <<>>
    /\ errors' = <<>>
    /\ nfmt' = 1
    /\ IF MissingFile(file, f)
       THEN /\ raised' = [kind |-> "FileNotFoundError", formats |-> <<>>,
                          reasons |-> <<>>]
            /\ is_array' = FALSE
            /\ ld_pc' = "done"
       ELSE /\ raised' = Null
            /\ is_array' = (EntryClass(e) # "Affine")
            /\ ld_pc' = "loop"
    /\ UNCHANGED <<apvars, alvars>>

\* One iteration of `for potential_fmt in fmtlist`.
TryFormat ==
    /\ ld_pc = "loop"
    /\ nfmt <= Len(fmtlist)
    /\ LET potential_fmt == fmtlist[nfmt]
           toAffine == potential_fmt = "itk" /\ filename.suffix = ".mat"
           arr == IF toAffine THEN FALSE ELSE is_array
           c == IF toAffine THEN "Affine" ELSE cls
           outcome == filename.parses[potential_fmt]
       IN  /\ is_array' = arr
           /\ cls' = c
           /\ tried' = Append(tried, potential_fmt)
           /\ IF outcome = "ok"
              THEN /\ retval' = [cls |-> c, fmt |-> potential_fmt,
                                 len |-> IF arr THEN filename.count ELSE 1]
                   /\ ld_pc' = IF entry = "load" THEN "loaded" ELSE "done"
                   /\ UNCHANGED <<errors, nfmt, raised>>
              ELSE IF Caught(outcome)
              THEN /\ errors' = Append(errors, <<potential_fmt, outcome>>)
                   /\ nfmt' = nfmt + 1
                   /\ UNCHANGED <<retval, ld_pc, raised>>
              ELSE /\ raised' = [kind |-> outcome, formats |-> <<>>,
                                 reasons |-> <<>>]
                   /\ ld_pc' = "done"
                   /\ UNCHANGED <<errors, nfmt, retval>>
    /\ UNCHANGED <<entry, filename, fmt, fmtlist>>
    /\ UNCHANGED <<apvars, alvars>>

\* The raise that follows the loop.
RaiseCouldNotOpen ==
    /\ ld_pc = "loop"
    /\ nfmt > Len(fmtlist)
    /\ raised' = CouldNotOpen(fmtlist)
    /\ ld_pc' = "done"
    /\ UNCHANGED <<entry, filename, fmt, fmtlist, cls, is_array, errors, tried,
                   nfmt, retval>>
    /\ UNCHANGED <<apvars, alvars>>

\* load(): a series of length one is replaced by its only transform.
LoadReturn ==
    /\ ld_pc = "loaded"
    /\ retval' = IF retval.cls = "LinearTransformsMapping" /\ retval.len = 1
                 THEN [retval EXCEPT !.cls = "Affine"]
                 ELSE retval
    /\ ld_pc' = "done"
    /\ UNCHANGED <<entry, filename, fmt, fmtlist, cls, is_array, errors, tried,
                   nfmt, raised>>
    /\ UNCHANGED <<apvars, alvars>>

\* ========================================================================
\* LinearTransformsMapping.apply
\* ========================================================================
Last(s) == s[Len(s)]

RECURSIVE Prod(_)
Prod(s) == IF s = <<>> THEN 1 ELSE s[1] * Prod(Tail(s))

SourceImages ==
    {[ndim |-> Len(s), shape |-> s] :
        s \in {<<2, 2>>, <<2, 2, 2>>} \cup {<<2, 2, 2, k>> : k \in 1..MaxT}}

\* _ref is an ImageGrid (it has a shape) or a bare set of sampled points.
References ==
    {[kind |-> "ImageGrid", shape |-> s, npoints |-> Prod(s)] :
        s \in {<<2, 2, 2>>, <<1, 2, 3>>}}
    \cup {[kind |-> "SampledSpatialData", shape |-> <<>>, npoints |-> n] :
        n \in {1, 3}}

\* spatialimage.ndim == 4 and (len(self) != spatialimage.shape[-1])
ChannelMismatchOnlyWhenShort(img, n) ==
    img.ndim = 4 /\ n > Last(img.shape)

ChannelMismatch(img, n) ==
    img.ndim = 4 /\ n # Last(img.shape)

\* resampled.reshape(_ref.shape + (len(self),))
GridShapeSqueezed(ref, n) ==
    IF n = 1 THEN ref.shape ELSE ref.shape \o <<n>>

GridShape(ref, n) == ref.shape \o <<n>>

\* The call up to the for loop: references resolved, the channel check, the
\* allocation of the output buffer and the up-front read of a 2D/3D source.
ApplyCall(img, n, ref) ==
    /\ ap_pc = "idle"
    /\ spatialimage' = img
    /\ ntransforms' = n
    /\ ap_ref' = ref
    /\ ninterp' = 0
    /\ t' = 0
    /\ moved' = Null
    /\ IF ChannelMismatch(img, n)
       THEN /\ ap_raised' = [kind |-> "ValueError", transforms |-> n,
                             timepoints |-> Last(img.shape)]
            /\ resampled' = Null
            /\ dataobj' = None
            /\ ap_pc' = "done"
       ELSE /\ ap_raised' = Null
            /\ resampled' = [shape |-> <<ref.npoints, n>>, written |-> {}]
            /\ dataobj' = IF img.ndim \in {2, 3} THEN "loaded" ELSE None
            /\ ap_pc' = "loop"
    /\ UNCHANGED <<ldvars, alvars>>

\* One iteration of `for t, xfm_t in enumerate(self)`: map, interpolate,
\* store channel t.
ApplyInterpolate ==
    /\ ap_pc = "loop"
    /\ t < ntransforms
    /\ ninterp' = ninterp + 1
    /\ resampled' = [resampled EXCEPT !.written = @ \cup {t}]
    /\ t' = t + 1
    /\ UNCHANGED <<ap_pc, spatialimage, ntransforms, ap_ref, dataobj, moved,
                   ap_raised>>
    /\ UNCHANGED <<ldvars, alvars>>

\* After the loop: reshape onto the grid, or return the flat buffer.
ApplyReturn ==
    /\ ap_pc = "loop"
    /\ t = ntransforms
    /\ moved' = IF ap_ref.kind = "ImageGrid"
                THEN [kind |-> "image", shape |-> GridShape(ap_ref, ntransforms)]
                ELSE [kind |-> "ndarray", shape |-> resampled.shape]
    /\ ap_pc' = "done"
    /\ UNCHANGED <<spatialimage, ntransforms, ap_ref, resampled, dataobj, t,
                   ninterp, ap_raised>>
    /\ UNCHANGED <<ldvars, alvars>>

\* ========================================================================
\* Arrays and linear algebra
\* ========================================================================
\* An array is [ndim, val, res]: val holds the entries (a row of numbers, a
\* sequence of rows, or a sequence of matrices). Entries are integers; the
\* row of index 3 of an array a caller hands in may be off its integers by
\* res[j] / TolDen, which is how a last row that is only approximately
\* (0, 0, 0, 1) is written down.
TolDen == 100000000      \* tolerances are counted in units of 1e-8
ATolNum == 1             \* numpy's default atol, 1e-8
RTolNum == 1000          \* numpy's default rtol, 1e-5
EqRTolNum == 1000        \* EQUALITY_TOL, 1e-5

Zero4 == <<0, 0, 0, 0>>

HomogeneousRow == <<0, 0, 0, 1>>

Eye4 == <<<<1, 0, 0, 0>>, <<0, 1, 0, 0>>, <<0, 0, 1, 0>>, <<0, 0, 0, 1>>>>

Arr(n, v) == [ndim |-> n, val |-> v, res |-> Zero4]

Abs(x) == IF x < 0 THEN -x ELSE x

\* np.allclose on one pair of stored (integer) entries:
\* |a - b| <= atol + rtol * |b|, both sides in units of 1 / TolDen.
IsClose(a, b, rtol) == Abs(a - b) <= (ATolNum + rtol * Abs(b)) \div TolDen

\* np.allclose(self._matrix[3, :], (0, 0, 0, 1)) on a row with residuals.
LastRowClose(m) ==
    \A j \in 1..4 :
        Abs(TolDen * (m.val[4][j] - HomogeneousRow[j]) + m.res[j])
            <= ATolNum + RTolNum * Abs(HomogeneousRow[j])

\* a.dot(b) for two 4x4 matrices
MatMul(a, b) ==
    [i \in 1..4 |-> [j \in 1..4 |->
        a[i][1] * b[1][j] + a[i][2] * b[2][j] + a[i][3] * b[3][j]
            + a[i][4] * b[4][j]]]

\* The 3x3 matrix left of m once row i and column j are struck out.
Skip(x, k) == IF k < x THEN k ELSE k + 1

Minor(m, i, j) ==
    [r \in 1..3 |-> [c \in 1..3 |-> m[Skip(i, r)][Skip(j, c)]]]

Det3(m) ==
    m[1][1] * (m[2][2] * m[3][3] - m[2][3] * m[3][2])
    - m[1][2] * (m[2][1] * m[3][3] - m[2][3] * m[3][1])
    + m[1][3] * (m[2][1] * m[3][2] - m[2][2] * m[3][1])

Sign(i, j) == IF (i + j) % 2 = 0 THEN 1 ELSE -1

Cofactor(m, i, j) == Sign(i, j) * Det3(Minor(m, i, j))

Det(m) ==
    m[1][1] * Cofactor(m, 1, 1) + m[1][2] * Cofactor(m, 1, 2)
    + m[1][3] * Cofactor(m, 1, 3) + m[1][4] * Cofactor(m, 1, 4)

\* The adjugate of m over d.
AdjugateOver(m, d) ==
    [i \in 1..4 |-> [j \in 1..4 |-> Cofactor(m, j, i) \div d]]

\* np.linalg.inv of a 4x4 matrix of determinant 1 or -1: the adjugate over
\* the determinant, which is exact on the integer matrices of this model.
InvNegatedTranslation(m) ==
    [i \in 1..4 |-> [j \in 1..4 |->
        IF i < 4 /\ j = 4 THEN -m[i][j] ELSE m[i][j]]]

Inv(m) == AdjugateOver(m, Det(m))

\* ========================================================================
\* Storage: which array a name refers to
\* ========================================================================
\* A heap is [arg, store]. A reference to storage is [id, k]: array id of
\* the store (id > 0) or of the caller's arguments (id < 0), as a whole
\* (k = 0) or its k-th matrix (a view, k > 0).
Ref(id, k) == [id |-> id, k |-> k]

Whole(h, id) == IF id < 0 THEN h.arg[-id] ELSE h.store[id]

Deref(h, r) ==
    IF r.k = 0 THEN Whole(h, r.id) ELSE Arr(2, Whole(h, r.id).val[r.k])

\* Writing through a reference changes the array it refers to.
Assign(h, r, a) ==
    LET new == IF r.k = 0 THEN a
               ELSE [Whole(h, r.id) EXCEPT !.val[r.k] = a.val]
    IN  IF r.id < 0 THEN [h EXCEPT !.arg[-r.id] = new]
        ELSE [h EXCEPT !.store[r.id] = new]

\* A new array of the store.
Alloc(h, a) ==
    [h |-> [h EXCEPT !.store = Append(@, a)], r |-> Ref(Len(h.store) + 1, 0)]

\* np.array(matrix): always a copy.
NpAsArray(h, r) == [h |-> h, r |-> r]

NpArray(h, r) == Alloc(h, Deref(h, r))

\* self._matrix[3, :] = (0, 0, 0, 1)
NormalizeLastRow(h, r) ==
    LET m == Deref(h, r)
    IN  Assign(h, r, [m EXCEPT !.val[4] = HomogeneousRow, !.res = Zero4])

\* ========================================================================
\* Affine
\* ========================================================================
Transform(c, m, i, reference) ==
    [cls |-> c, matrix |-> m, inverse |-> i, reference |-> reference]

Error(kind, msg) == [kind |-> kind, msg |-> msg]

\* An exception leaves the call: no transform, and the arrays the call
\* allocated are gone (h0 is the heap the call started from).
Fail(h0, h, kind, msg) ==
    [err |-> Error(kind, msg),
     h |-> [h EXCEPT !.store = SubSeq(@, 1, Len(h0.store))],
     obj |-> Null]

\* Affine.__init__(matrix, reference); matrix is a reference to an array, or
\* None.
AffineInit(h, matrix, reference) ==
    IF matrix = Null
    THEN LET a == Alloc(h, Arr(2, Eye4))
             b == Alloc(a.h, Arr(2, Eye4))
         IN  [err |-> Null, h |-> b.h,
              obj |-> Transform("Affine", a.r, b.r, reference)]
    ELSE
    LET c == NpArray(h, matrix)
        m == Deref(c.h, c.r)
    IN  IF m.ndim # 2
        THEN Fail(h, c.h, "TypeError", "Affine should be 2D.")
        ELSE IF Len(m.val) # Len(m.val[1])
        THEN Fail(h, c.h, "TypeError", "Matrix is not square.")
        ELSE IF Len(m.val) < 4
        THEN Fail(h, c.h, "IndexError", "index 3 is out of bounds")
        ELSE IF Len(m.val[4]) # 4
        THEN Fail(h, c.h, "ValueError", "operands could not be broadcast")
        ELSE IF ~LastRowClose(m)
        THEN Fail(h, c.h, "ValueError",
                  "The last row of a homogeneus matrix should be (0, 0, 0, 1)")
        ELSE
        LET n == NormalizeLastRow(c.h, c.r)
            v == Deref(n, c.r).val
        IN  IF Det(v) = 0
            THEN Fail(h, n, "LinAlgError", "Singular matrix")
            ELSE LET i == Alloc(n, Arr(2, Inv(v)))
                 IN  [err |-> Null, h |-> i.h,
                      obj |-> Transform("Affine", c.r, i.r, reference)]

\* a.dot(b) of a 4x4 matrix with a 4x4 matrix or with a stack of them:
\* (4,4).(N,4,4) has shape (4,N,4).
Dot(a, b) ==
    IF b.ndim = 2 THEN Arr(2, MatMul(a.val, b.val))
    ELSE Arr(3, [i \in 1..4 |-> [n \in 1..Len(b.val) |-> [j \in 1..4 |->
             a.val[i][1] * b.val[n][1][j] + a.val[i][2] * b.val[n][2][j]
             + a.val[i][3] * b.val[n][3][j] + a.val[i][4] * b.val[n][4][j]]]])

\* if _b.reference: retval.reference = _b.reference
ComposedReferenceOfLeft(self, b) ==
    IF self.reference # None THEN self.reference ELSE b.reference

ComposedReference(self, b) ==
    IF b.reference # None THEN b.reference ELSE None

\* Affine.__matmul__ once b is a transform: the product goes through the
\* constructor, then the reference of _b is taken over.
MatMulTransforms(h0, h, self, b) ==
    LET p == Alloc(h, Dot(Deref(h, self.matrix), Deref(h, b.matrix)))
        r == AffineInit(p.h, p.r, None)
    IN  IF r.err # Null THEN Fail(h0, r.h, r.err.kind, r.err.msg)
        ELSE [r EXCEPT !.obj.reference = ComposedReference(self, b)]

\* ========================================================================
\* LinearTransformsMapping
\* ========================================================================
\* An entry of the list handed to the constructor: a transform (obj > 0) or
\* an array (ref).
Item(o, r) == [obj |-> o, ref |-> r]

\* One more entry of the list: the matrix of a transform, or of the Affine
\* built from an array (r is what that constructor did).
Stacked(p, os, xfm, r) ==
    IF p.err # Null THEN p
    ELSE IF xfm.obj > 0
    THEN [p EXCEPT !.val = Append(@, Deref(p.h, os[xfm.obj].matrix).val)]
    ELSE IF r.err # Null THEN [err |-> r.err, h |-> r.h, val |-> <<>>]
    ELSE [err |-> Null, h |-> r.h,
          val |-> Append(p.val, Deref(r.h, r.obj.matrix).val)]

\* [(xfm if isinstance(xfm, Affine) else Affine(xfm)).matrix for xfm in ...]
RECURSIVE Matrices(_, _, _, _)
Matrices(h, os, transforms, k) ==
    IF k = 0 THEN [err |-> Null, h |-> h, val |-> <<>>]
    ELSE Stacked(Matrices(h, os, transforms, k - 1), os, transforms[k],
                 AffineInit(Matrices(h, os, transforms, k - 1).h,
                            transforms[k].ref, None))

\* np.stack(...) and np.linalg.inv of the stack, entry by entry.
StackAndInvert(h, ms, reference) ==
    IF ms.err # Null THEN Fail(h, ms.h, ms.err.kind, ms.err.msg)
    ELSE IF ms.val = <<>>
    THEN Fail(h, ms.h, "ValueError", "need at least one array to stack")
    ELSE IF \E k \in 1..Len(ms.val) : Det(ms.val[k]) = 0
    THEN Fail(h, ms.h, "LinAlgError", "Singular matrix")
    ELSE [err |-> Null,
          h |-> [ms.h EXCEPT !.store =
                    @ \o <<Arr(3, ms.val),
                            Arr(3, [k \in 1..Len(ms.val) |-> Inv(ms.val[k])])>>],
          obj |-> Transform("LinearTransformsMapping",
                            Ref(Len(ms.h.store) + 1, 0),
                            Ref(Len(ms.h.store) + 2, 0), reference)]

\* LinearTransformsMapping.__init__(transforms, reference)
SeriesInit(h, os, transforms, reference) ==
    StackAndInvert(h, Matrices(h, os, transforms, Len(transforms)), reference)

\* The 2D arrays a loop over a 3D array yields: its views.
Views(h, r) ==
    [k \in 1..Len(Deref(h, r).val) |-> Item(0, Ref(r.id, k))]

\* self.__class__(self._inverse)
InvertTransform(h, os, self) ==
    IF self.cls = "Affine" THEN AffineInit(h, self.inverse, None)
    ELSE SeriesInit(h, os, Views(h, self.inverse), None)

\* Affine(self.matrix[i, ...], reference=self._reference), i counted from 1
GetItemTransform(h, self, i) ==
    AffineInit(h, Ref(self.matrix.id, i), self.reference)

\* __iter__ run to its end: one Affine per matrix, in order.
RECURSIVE IterTransforms(_, _, _, _)
IterTransforms(h, self, k, acc) ==
    IF k > Len(Deref(h, self.matrix).val)
    THEN [err |-> Null, h |-> h, objs |-> acc]
    ELSE LET r == GetItemTransform(h, self, k)
         IN  IF r.err # Null THEN [err |-> r.err, h |-> r.h, objs |-> <<>>]
             ELSE IterTransforms(r.h, self, k + 1, Append(acc, r.obj))

\* ========================================================================
\* __eq__ and map
\* ========================================================================
\* The matrices of an array as a stack: a 2D array broadcasts like a stack
\* of one.
Stack(a) == IF a.ndim = 2 THEN <<a.val>> ELSE a.val

Broadcasts(a, b) ==
    Len(Stack(a)) = Len(Stack(b)) \/ Len(Stack(a)) = 1 \/ Len(Stack(b)) = 1

\* np.allclose(a, b, rtol=rtol)
AllClose(a, b, rtol) ==
    LET sa == Stack(a)
        sb == Stack(b)
        n == IF Len(sa) > Len(sb) THEN Len(sa) ELSE Len(sb)
        at(s, k) == IF Len(s) = 1 THEN s[1] ELSE s[k]
    IN  \A k \in 1..n : \A i \in 1..4 : \A j \in 1..4 :
            IsClose(at(sa, k)[i][j], at(sb, k)[i][j], rtol)

\* _eq and self._reference != other._reference
WarnsOnAnyMismatch(eq, self, other) == self.reference # other.reference

Warns(eq, self, other) == eq /\ self.reference # other.reference

\* _as_homogeneous(x, dim).T: a column (x, y, z, 1) per point
AsHomogeneousT(x) ==
    [i \in 1..4 |-> [m \in 1..Len(x) |-> IF i = 4 THEN 1 ELSE x[m][i]]]

\* affine.dot(coords) for a 4x4 affine and 4xM coords
DotCoords(affine, coords) ==
    [i \in 1..4 |-> [m \in 1..Len(coords[1]) |->
        affine[i][1] * coords[1][m] + affine[i][2] * coords[2][m]
        + affine[i][3] * coords[3][m] + affine[i][4] * coords[4][m]]]

\* Affine.map: affine.dot(coords).T[..., :-1]
AffineMap(affine, x) ==
    LET y == DotCoords(affine, AsHomogeneousT(x))
    IN  [m \in 1..Len(x) |-> [i \in 1..3 |-> y[i][m]]]

\* LinearTransformsMapping.map: np.swapaxes(affine.dot(coords), 1, 2)
SeriesMap(affine, x) ==
    LET coords == AsHomogeneousT(x)
        y == [n \in 1..Len(affine) |-> DotCoords(affine[n], coords)]
    IN  [n \in 1..Len(affine) |-> [m \in 1..Len(x) |-> [i \in 1..4 |->
            y[n][i][m]]]]

\* ========================================================================
\* The calls of the transform algebra
\* ========================================================================
\* Arrays a caller may hand in.
Translation(x, y, z) ==
    <<<<1, 0, 0, x>>, <<0, 1, 0, y>>, <<0, 0, 1, z>>, <<0, 0, 0, 1>>>>

\* A quarter turn about z followed by a shift along x.
QuarterTurn ==
    <<<<0, -1, 0, 4>>, <<1, 0, 0, 0>>, <<0, 0, 1, 0>>, <<0, 0, 0, 1>>>>

\* A last row within tolerance of (0, 0, 0, 1), not equal to it.
NearlyHomogeneous ==
    [ndim |-> 2, val |-> Translation(1, 2, 3), res |-> <<1, -1, 0, 1001>>]

ValidMatrices ==
    {Arr(2, Translation(1, 2, 3)), Arr(2, QuarterTurn), NearlyHomogeneous}

InvalidMatrices ==
    {\* last row just beyond tolerance
     [ndim |-> 2, val |-> Translation(1, 2, 3), res |-> <<2, 0, 0, 0>>],
     \* last row (0, 0, 1, 1)
     Arr(2, <<<<1, 0, 0, 0>>, <<0, 1, 0, 0>>, <<0, 0, 1, 0>>, <<0, 0, 1, 1>>>>),
     \* singular, with a proper last row
     Arr(2, <<<<1, 0, 0, 0>>, <<0, 0, 0, 0>>, <<0, 0, 1, 0>>, <<0, 0, 0, 1>>>>),
     \* singular, last row within tolerance
     [ndim |-> 2,
      val |-> <<<<1, 0, 0, 0>>, <<1, 0, 0, 0>>, <<0, 0, 1, 0>>, <<0, 0, 0, 1>>>>,
      res |-> <<0, 1, 0, 0>>],
     \* not 2-dimensional
     Arr(1, <<0, 0, 0, 1>>),
     Arr(3, <<Eye4>>),
     \* 2-dimensional, not square
     Arr(2, <<<<1, 0, 0, 0>>, <<0, 1, 0, 0>>, <<0, 0, 1, 0>>>>),
     \* square, 3x3 and 5x5
     Arr(2, <<<<1, 0, 0>>, <<0, 1, 0>>, <<0, 0, 1>>>>),
     Arr(2, <<<<1, 0, 0, 0, 0>>, <<0, 1, 0, 0, 0>>, <<0, 0, 1, 0, 0>>,
              <<0, 0, 0, 1, 0>>, <<0, 0, 0, 0, 1>>>>)}

RawArrays == ValidMatrices \cup InvalidMatrices

\* Arrays handed to @ in place of a transform.
ComposeArrays ==
    {Arr(2, QuarterTurn),
     [ndim |-> 2, val |-> Translation(1, 2, 3), res |-> <<2, 0, 0, 0>>]}


\* Reference grids, compared by what they are.
Grids == {None, "grid_a", "grid_b"}

PointSets == {<<<<0, 0, 0>>>>, <<<<0, 0, 0>>, <<1, -1, 2>>>>}

\* Matrices for comparison: two of them differ by less than the tolerance.
QueryMatrices ==
    {Arr(2, Translation(1, 2, 3)),
     Arr(2, Translation(200000, 2, 3)),
     Arr(2, Translation(200001, 2, 3))}

Call(op, self, other, given, err, res, value, warned) ==
    [op |-> op, self |-> self, other |-> other, given |-> given, err |-> err,
     res |-> res, value |-> value, warned |-> warned]

Heap(given) == [arg |-> given, store |-> store]

\* The state after a call that builds transforms: r is what the call made of
\* the heap, made is the transforms it returned.
Built(op, self, other, given, r, made) ==
    /\ objs' = objs \o made
    /\ store' = r.h.store
    /\ arg' = r.h.arg
    /\ last' = Call(op, self, other, given, r.err,
                    [k \in 1..Len(made) |-> Len(objs) + k], Null, FALSE)

\* Affine(matrix, reference), matrix an array of the caller or nothing
Construct(matrix, reference) ==
    /\ Len(objs) < MaxObjs
    /\ LET given == IF matrix = Null THEN <<>> ELSE <<matrix>>
           r == AffineInit(Heap(given),
                           IF matrix = Null THEN Null ELSE Ref(-1, 0),
                           reference)
       IN  Built("construct", 0, 0, given, r,
                 IF r.err = Null THEN <<r.obj>> ELSE <<>>)
    /\ UNCHANGED <<ldvars, apvars>>

\* Affine(xfm.matrix, reference): the array of another transform handed in
ConstructFrom(i, reference) ==
    /\ Len(objs) < MaxObjs
    /\ LET r == AffineInit(Heap(<<>>), objs[i].matrix, reference)
       IN  Built("construct_from", i, 0, <<>>, r,
                 IF r.err = Null THEN <<r.obj>> ELSE <<>>)
    /\ UNCHANGED <<ldvars, apvars>>

\* ~xfm
Invert(i) ==
    /\ Len(objs) < MaxObjs
    /\ LET r == InvertTransform(Heap(<<>>), objs, objs[i])
       IN  Built("invert", i, 0, <<>>, r,
                 IF r.err = Null THEN <<r.obj>> ELSE <<>>)
    /\ UNCHANGED <<ldvars, apvars>>

\* xfm @ other, both transforms
Compose(i, j) ==
    /\ Len(objs) < MaxObjs
    /\ objs[i].cls = "Affine"
    /\ LET h == Heap(<<>>)
           r == MatMulTransforms(h, h, objs[i], objs[j])
       IN  Built("compose", i, j, <<>>, r,
                 IF r.err = Null THEN <<r.obj>> ELSE <<>>)
    /\ UNCHANGED <<ldvars, apvars>>

\* xfm @ b, b an array: _b = self.__class__(b) first
ComposeArray(i, b) ==
    /\ Len(objs) < MaxObjs
    /\ objs[i].cls = "Affine"
    /\ LET h == Heap(<<b>>)
           _b == AffineInit(h, Ref(-1, 0), None)
           r == IF _b.err # Null THEN _b
                ELSE MatMulTransforms(h, _b.h, objs[i], _b.obj)
       IN  Built("compose_array", i, 0, <<b>>, r,
                 IF r.err = Null THEN <<r.obj>> ELSE <<>>)
    /\ UNCHANGED <<ldvars, apvars>>

\* What a list of transforms and arrays looks like to the constructor: the
\* arrays are the caller's, numbered in the order they appear.
RECURSIVE Items(_, _, _)
Items(entries, k, narrays) ==
    IF k > Len(entries) THEN <<>>
    ELSE IF entries[k].obj > 0
    THEN <<Item(entries[k].obj, Null)>> \o Items(entries, k + 1, narrays)
    ELSE <<Item(0, Ref(-(narrays + 1), 0))>>
             \o Items(entries, k + 1, narrays + 1)

RECURSIVE Arrays(_)
Arrays(entries) ==
    IF entries = <<>> THEN <<>>
    ELSE (IF entries[1].obj > 0 THEN <<>> ELSE <<entries[1].array>>)
             \o Arrays(Tail(entries))

\* LinearTransformsMapping(transforms, reference); an entry is a transform
\* ([obj |-> its index]) or an array of the caller ([obj |-> 0, array |-> it])
MakeSeries(entries, reference) ==
    /\ Len(objs) < MaxObjs
    /\ \A k \in 1..Len(entries) :
           entries[k].obj > 0 => objs[entries[k].obj].cls = "Affine"
    /\ LET given == Arrays(entries)
           r == SeriesInit(Heap(given), objs, Items(entries, 1, 0), reference)
       IN  Built("series", 0, 0, given, r,
                 IF r.err = Null THEN <<r.obj>> ELSE <<>>)
    /\ UNCHANGED <<ldvars, apvars>>

\* series[i]
GetItem(s, i) ==
    /\ Len(objs) < MaxObjs
    /\ objs[s].cls = "LinearTransformsMapping"
    /\ i \in 1..Len(Deref(Heap(<<>>), objs[s].matrix).val)
    /\ LET r == GetItemTransform(Heap(<<>>), objs[s], i)
       IN  Built("getitem", s, i, <<>>, r,
                 IF r.err = Null THEN <<r.obj>> ELSE <<>>)
    /\ UNCHANGED <<ldvars, apvars>>

\* list(series)
Iterate(s) ==
    /\ objs[s].cls = "LinearTransformsMapping"
    /\ Len(objs) + Len(Deref(Heap(<<>>), objs[s].matrix).val) <= MaxObjs
    /\ LET r == IterTransforms(Heap(<<>>), objs[s], 1, <<>>)
       IN  Built("iter", s, 0, <<>>, r, r.objs)
    /\ UNCHANGED <<ldvars, apvars>>

\* xfm == other
Equals(i, j) ==
    /\ LET h == Heap(<<>>)
           a == Deref(h, objs[i].matrix)
           b == Deref(h, objs[j].matrix)
       IN  IF ~Broadcasts(a, b)
           THEN last' = Call("eq", i, j, <<>>,
                             Error("ValueError", "operands could not be broadcast"),
                             <<>>, Null, FALSE)
           ELSE LET _eq == AllClose(a, b, EqRTolNum)
                IN  last' = Call("eq", i, j, <<>>, Null, <<>>, _eq,
                                 Warns(_eq, objs[i], objs[j]))
    /\ arg' = <<>>
    /\ UNCHANGED <<objs, store>>
    /\ UNCHANGED <<ldvars, apvars>>

\* xfm.map(x, inverse)
Map(i, x, inverse) ==
    /\ LET h == Heap(<<>>)
           affine == Deref(h, IF inverse THEN objs[i].inverse
                              ELSE objs[i].matrix).val
       IN  last' = Call("map", i, inverse, <<x>>, Null, <<>>,
                        IF objs[i].cls = "Affine" THEN AffineMap(affine, x)
                        ELSE SeriesMap(affine, x),
                        FALSE)
    /\ arg' = <<x>>
    /\ UNCHANGED <<objs, store>>
    /\ UNCHANGED <<ldvars, apvars>>

\* ========================================================================
\* Specifications
\* ========================================================================
vars == <<ldvars, apvars, alvars>>

InitLoad ==
    /\ ld_pc = "idle"
    /\ entry = None
    /\ filename = Null
    /\ fmt = None
    /\ fmtlist = <<>>
    /\ cls = None
    /\ is_array = FALSE
    /\ errors = <<>>
    /\ tried = <<>>
    /\ nfmt = 1
    /\ retval = Null
    /\ raised = Null

InitApply ==
    /\ ap_pc = "idle"
    /\ spatialimage = Null
    /\ ntransforms = 0
    /\ ap_ref = Null
    /\ resampled = Null
    /\ dataobj = None
    /\ t = 0
    /\ ninterp = 0
    /\ moved = Null
    /\ ap_raised = Null

InitAlgebra ==
    /\ objs = <<>>
    /\ store = <<>>
    /\ arg = <<>>
    /\ last = Call("none", 0, 0, <<>>, Null, <<>>, Null, FALSE)

Init == InitLoad /\ InitApply /\ InitAlgebra

NextLoad ==
    \/ /\ ld_pc = "idle"
       /\ \E e \in EntryPoints, file \in Files, f \in Formats \cup {None} :
              FromFilename(e, file, f)
    \/ TryFormat
    \/ RaiseCouldNotOpen
    \/ LoadReturn

NextApply ==
    \/ /\ ap_pc = "idle"
       /\ \E img \in SourceImages, n \in 1..MaxT, ref \in References :
              ApplyCall(img, n, ref)
    \/ ApplyInterpolate
    \/ ApplyReturn

Objects == 1..Len(objs)

OfObject(i) == [obj |-> i, array |-> Null]

OfArray(a) == [obj |-> 0, array |-> a]

RECURSIVE Ascending(_)
Ascending(S) ==
    IF S = {} THEN <<>>
    ELSE LET i == CHOOSE x \in S : \A y \in S : x <= y
         IN  <<OfObject(i)>> \o Ascending(S \ {i})

\* Lists handed to the series constructor: lists of arrays, lists of the
\* caller's transforms in the order they were made, and a mixed list.
ArrayLists ==
    {<<>>,
     <<OfArray(Arr(2, Translation(-1, -2, -3)))>>,
     <<OfArray(Arr(2, Translation(1, 2, 3))),
       OfArray([ndim |-> 2, val |-> QuarterTurn, res |-> <<0, 0, 1, -1000>>])>>,
     <<OfArray(Arr(2, Translation(1, 2, 3))),
       OfArray(Arr(2, <<<<1, 0, 0, 0>>, <<0, 1, 0, 0>>, <<0, 0, 1, 0>>,
                        <<0, 0, 1, 1>>>>))>>}

ObjectLists ==
    {Ascending(S) : S \in {X \in SUBSET Objects :
                              X # {} /\ Cardinality(X) <= MaxSeries}}

MixedLists ==
    {<<OfObject(i), OfArray(Arr(2, Translation(-1, -2, -3)))>> : i \in Objects}

FewArrayLists ==
    {<<OfArray(NearlyHomogeneous)>>,
     <<OfArray(NearlyHomogeneous), OfArray(Arr(2, QuarterTurn))>>}

Lists == ArrayLists \cup ObjectLists \cup MixedLists

\* The calls that build transforms.
Next ==
    \/ \E m \in ValidMatrices \cup {Null}, g \in Grids : Construct(m, g)
    \/ \E i \in Objects, g \in Grids : ConstructFrom(i, g)
    \/ \E i \in Objects : Invert(i)
    \/ \E i, j \in Objects : Compose(i, j)
    \/ \E i \in Objects, b \in ComposeArrays : ComposeArray(i, b)
    \/ \E es \in Lists, g \in Grids : MakeSeries(es, g)
    \/ \E s \in Objects, i \in 1..MaxSeries : GetItem(s, i)
    \/ \E s \in Objects : Iterate(s)

\* The constructor on every kind of array.
NextConstruct ==
    \E m \in RawArrays \cup {Null}, g \in Grids : Construct(m, g)

\* Transforms and series built and then compared and mapped.
NextQuery ==
    \/ \E m \in QueryMatrices, g \in Grids : Construct(m, g)
    \/ \E es \in ObjectLists \cup MixedLists : MakeSeries(es, None)
    \/ \E i, j \in Objects : Equals(i, j)
    \/ \E i \in Objects, x \in PointSets, inv \in BOOLEAN : Map(i, x, inv)

\* Every call, on one array and one point set.
NextAll ==
    \/ \E g \in {None, "grid_a"} : Construct(NearlyHomogeneous, g)
    \/ \E i \in Objects : ConstructFrom(i, None)
    \/ \E i \in Objects : Invert(i)
    \/ \E i, j \in Objects : Compose(i, j)
    \/ \E i \in Objects : ComposeArray(i, NearlyHomogeneous)
    \/ \E es \in ObjectLists \cup MixedLists \cup FewArrayLists :
           MakeSeries(es, None)
    \/ \E s \in Objects, i \in 1..MaxSeries : GetItem(s, i)
    \/ \E s \in Objects : Iterate(s)
    \/ \E i, j \in Objects : Equals(i, j)
    \/ \E i \in Objects, inv \in BOOLEAN : Map(i, <<<<1, -1, 2>>>>, inv)

Spec == Init /\ [][Next]_vars

SpecConstruct == Init /\ [][NextConstruct]_vars

SpecQuery == Init /\ [][NextQuery]_vars

SpecAll == Init /\ [][NextAll]_vars

SpecLoad == Init /\ [][NextLoad]_vars

SpecApply == Init /\ [][NextApply]_vars

\* ========================================================================
\* Properties
\* ========================================================================
\* The position of the first default format the file parses as, 0 if none.
FirstParsed ==
    IF \E k \in 1..4 : filename.parses[DefaultFormats[k]] = "ok"
    THEN CHOOSE k \in 1..4 :
             /\ filename.parses[DefaultFormats[k]] = "ok"
             /\ \A j \in 1..(k - 1) : filename.parses[DefaultFormats[j]] # "ok"
    ELSE 0

\* C1: with fmt unspecified the formats are attempted in the order itk, lta,
\* afni, fsl; a format is attempted only after every earlier one failed, a
\* failure never ends the loop, the value returned comes from the first
\* format that parses, and nothing is attempted after it.
C1_FormatsTriedInOrder ==
    (ld_pc # "idle" /\ fmt = None) =>
        /\ Len(tried) <= 4
        /\ \A k \in 1..Len(tried) : tried[k] = DefaultFormats[k]
        /\ \A k \in 1..(Len(tried) - 1) : filename.parses[tried[k]] # "ok"
        /\ retval # Null =>
               /\ retval.fmt = tried[Len(tried)]
               /\ filename.parses[retval.fmt] = "ok"
        /\ ld_pc = "done" =>
               IF FirstParsed = 0
               THEN retval = Null /\ tried = DefaultFormats /\ raised # Null
               ELSE /\ retval # Null
                    /\ raised = Null
                    /\ retval.fmt = DefaultFormats[FirstParsed]
                    /\ Len(tried) = FirstParsed

\* C1 witness: itk fails with a missing-file error, lta fails, afni parses and
\* is returned, and fsl, which would parse too, was never attempted.
C1_Witness ==
    /\ ld_pc = "done"
    /\ fmt = None
    /\ filename.parses["itk"] = "FileNotFoundError"
    /\ filename.parses["lta"] = "TransformFileError"
    /\ filename.parses["fsl"] = "ok"
    /\ retval # Null
    /\ retval.fmt = "afni"
    /\ tried = <<"itk", "lta", "afni">>

\* C2: when every candidate format fails, the one error raised names every
\* attempted format together with the failure reason collected for it.
C2_ErrorListsEveryReason ==
    (ld_pc = "done" /\ Len(tried) = Len(fmtlist) /\ Len(errors) = Len(tried)
         /\ tried # <<>>) =>
        /\ raised # Null
        /\ raised.formats = tried
        /\ raised.reasons = errors

\* C3: a 4-dimensional source whose trailing axis differs from the series
\* length makes apply() fail with a ValueError before any interpolation and
\* without output; any other source passes this check.
C3_ChannelMismatchFailsFast ==
    ap_pc # "idle" =>
        IF Len(spatialimage.shape) = 4 /\ spatialimage.shape[4] # ntransforms
        THEN /\ ap_pc = "done"
             /\ ap_raised # Null
             /\ ap_raised.kind = "ValueError"
             /\ ninterp = 0
             /\ resampled = Null
             /\ moved = Null
        ELSE ap_raised = Null

\* C3 witness: a source with more channels than the series has transforms
\* was refused.
C3_Witness ==
    /\ ap_pc = "done"
    /\ Len(spatialimage.shape) = 4
    /\ spatialimage.shape[4] > ntransforms
    /\ ap_raised # Null

\* The case of C4: a 3-dimensional source, a series of length one and a
\* voxel-grid reference, once apply() has returned.
C4_Case ==
    /\ ap_pc = "done"
    /\ ap_raised = Null
    /\ spatialimage.ndim = 3
    /\ ntransforms = 1
    /\ ap_ref.kind = "ImageGrid"

\* C4 as stated: the output has exactly the shape of the reference grid.
C4_OutputShapedLikeGrid ==
    C4_Case => moved.shape = ap_ref.shape

\* C4 as amended: the output has the shape of the reference grid followed by
\* a trailing channel axis of length one.
C4_OutputHasTrailingAxis ==
    C4_Case =>
        /\ moved.kind = "image"
        /\ Len(moved.shape) = Len(ap_ref.shape) + 1
        /\ SubSeq(moved.shape, 1, Len(ap_ref.shape)) = ap_ref.shape
        /\ moved.shape[Len(moved.shape)] = 1
        /\ resampled.written = {0}

\* C4 witness: such a call returned on the 1 x 2 x 3 grid.
C4_Witness ==
    C4_Case /\ ap_ref.shape = <<1, 2, 3>> /\ moved # Null

\* The arrays of a transform as they are stored now.
MatrixOf(o) == Deref(Heap(arg), o.matrix)

InverseOf(o) == Deref(Heap(arg), o.inverse)

\* Row i of a 4x4 matrix applied to the point p = (x, y, z).
Coordinate(a, p, i) ==
    a[i][1] * p[1] + a[i][2] * p[2] + a[i][3] * p[3] + a[i][4]

\* C5: the map of a series of N transforms over M points is N x M x 3, and
\* its entry [n][m] holds the 3 coordinates transform n (its inverse when
\* inverse is asked for) gives point m.
C5_SeriesMapIsNxMxD ==
    (last.op = "map" /\ objs[last.self].cls = "LinearTransformsMapping") =>
        LET ms == IF last.other THEN InverseOf(objs[last.self]).val
                  ELSE MatrixOf(objs[last.self]).val
            x == last.given[1]
            y == last.value
        IN  /\ Len(y) = Len(ms)
            /\ \A n \in 1..Len(y) :
                   /\ Len(y[n]) = Len(x)
                   /\ \A m \in 1..Len(x) :
                          y[n][m] = [i \in 1..3 |-> Coordinate(ms[n], x[m], i)]

ExactInverse(m, i) == MatMul(m, i) = Eye4 /\ MatMul(i, m) = Eye4

C8_ThreeOutcomes ==
    (last.op = "construct" /\ last.given # <<>>) =>
        LET m == last.given[1]
        IN  IF m.ndim # 2 \/ Len(m.val) # Len(m.val[1])
            THEN /\ last.err # Null
                 /\ last.err.kind = "TypeError"
                 /\ last.res = <<>>
            ELSE IF Len(m.val) # 4 \/ ~LastRowClose(m)
            THEN /\ last.err # Null
                 /\ last.err.kind = "ValueError"
                 /\ last.res = <<>>
            ELSE /\ last.err = Null
                 /\ Len(last.res) = 1
                 /\ MatrixOf(objs[last.res[1]]).val[4] = HomogeneousRow

\* Two stored (integer) entries are equal within the relative tolerance of
\* __eq__, 1e-5 of the second.
ApproxEqual(a, b) ==
    \A i, j \in 1..4 :
        Abs(a[i][j] - b[i][j]) <= Abs(b[i][j]) \div (TolDen \div EqRTolNum)

\* C9: equals never raises over references: an error means the two stacks of
\* matrices have shapes that do not go together; otherwise the result is
\* whether the matrices are approximately equal, and a warning is emitted
\* exactly when they are and the references differ.
C9_EqualityIgnoresReference ==
    last.op = "eq" =>
        LET a == Stack(MatrixOf(objs[last.self]))
            b == Stack(MatrixOf(objs[last.other]))
            n == IF Len(a) > Len(b) THEN Len(a) ELSE Len(b)
            at(s, k) == IF Len(s) = 1 THEN s[1] ELSE s[k]
        IN  IF last.err # Null
            THEN Len(a) # Len(b) /\ Len(a) # 1 /\ Len(b) # 1
            ELSE /\ last.value = (\A k \in 1..n : ApproxEqual(at(a, k), at(b, k)))
                 /\ last.warned =
                        (last.value /\ objs[last.self].reference
                                           # objs[last.other].reference)

\* C9 witness: two transforms whose matrices differ by less than the
\* tolerance and whose references differ compared equal, with a warning.
C9_Witness ==
    /\ last.op = "eq"
    /\ last.err = Null
    /\ last.value = TRUE
    /\ last.warned
    /\ MatrixOf(objs[last.self]) # MatrixOf(objs[last.other])

\* No two arrays of the transforms os are the same storage, and none is an
\* array of a caller.
NoSharing(os) ==
    \A i, j \in 1..Len(os) :
        /\ os[i].matrix.id > 0 /\ os[i].matrix.k = 0
        /\ os[i].inverse.id > 0 /\ os[i].inverse.k = 0
        /\ os[i].matrix.id # os[i].inverse.id
        /\ i # j => {os[i].matrix.id, os[i].inverse.id}
                        \cap {os[j].matrix.id, os[j].inverse.id} = {}

\* C10: no call edits a transform in place: every transform keeps its
\* matrix, inverse and reference, the arrays handed to the call come back as
\* they were given, and the transforms a call returns are new instances
\* whose arrays are shared with no other transform.
C10_NeverEditedInPlace ==
    [][/\ NoSharing(objs')
       /\ Len(objs') >= Len(objs)
       /\ \A i \in 1..Len(objs) : objs'[i] = objs[i]
       /\ Len(store') >= Len(store)
       /\ \A id \in 1..Len(store) : store'[id] = store[id]
       /\ arg' = last'.given]_vars

\* C10 witness: a transform built from the matrix of another holds the same
\* numbers in an array of its own.
C10_Witness ==
    /\ last.op = "construct_from"
    /\ last.err = Null
    /\ objs[last.res[1]].matrix # objs[last.self].matrix
    /\ MatrixOf(objs[last.res[1]]) = MatrixOf(objs[last.self])
    /\ MatrixOf(objs[last.self]).val # Eye4

====
